---------------------------- MODULE Spec2Model ----------------------------
(***************************************************************************)
(* Streaming aggregation and broadcast pipeline of the trading dashboard   *)
(* backend: the bounded bar history of MarketDataStreamer (market_data.py),*)
(* the indicator computation (indicators.py), and the aggregator task,     *)
(* the subscriber registry and the websocket endpoint of main.py.          *)
(*                                                                         *)
(* Abstractions.  A bar is [timestamp, close]: the timestamp is an instant *)
(* (an integer), close stands for the numeric OHLC fields of the bar and   *)
(* is NaN when any of them is not a number.  The tasks run on one asyncio  *)
(* event loop: a step of the model is the code a task runs between two     *)
(* awaits.  A websocket channel delivers messages in the order send_text   *)
(* was called on it.                                                       *)
(* The environment may fail: the indicator computation may raise, a peer   *)
(* may stop reading (a send to it then does not return) or go away, and    *)
(* the bulk load may fail.  Shutdown is the shutdown_event handler; what   *)
(* the server does around it is outside the model.                         *)
(***************************************************************************)
EXTENDS Integers, Sequences, FiniteSets, TLC

\* ------------------------------------------------------------- bounds
\* Stand-in for OHLCV_HISTORY_SIZE (300 in Config.py): deque(maxlen=...).
HistorySize == 2
\* Stand-in for the 50 of list(ohlcv_history)[-50:].
RecentBars == 1
\* Stand-in for the 49 leading rows SMA_50 / EMA_50 leave undefined.
Lookback == 1
\* Timestamps of bars are 1..MaxTs.
MaxTs == 3
\* Rows of the bulk-load response.
MaxBatch == 2
\* Bars that arrive in all (bulk load and live), buffer specification.
MaxBars == 4
\* Bars that arrive in all (bulk load and live), pipeline specification.
MaxPipelineBars == 3
\* Bars that arrive in all (bulk load and live), live-feed specification.
MaxLiveBars == 4
\* Websocket clients that connect.
NumClients == 2

\* ------------------------------------------------------------- values
\* float('nan'), and what pd.to_numeric(errors='coerce') makes of a bad field.
NaN == 0
Closes == {NaN, 1, 2}
Timestamps == 1..MaxTs
Bars == [timestamp : Timestamps, close : Closes]
Clients == 1..NumClients
\* None (current_price, last_processed_bar_timestamp) and {} (global_latest_data)
None == 0
Empty == [empty |-> TRUE]
\* latest_bar before the first cycle
NoBar == [timestamp |-> None, close |-> NaN]
\* latest_indicators_series before the first non-empty result
NoRow == [timestamp |-> None, close |-> NaN, SMA |-> NaN]

VARIABLES
    startup_pc,        \* position of the application: "fetch" and "ws" in
                       \* startup_event, "running", "shutdown" after shutdown_event
    success,           \* startup_event's local success while the handler runs:
                       \* "ok" or "failed"; "unset" before and after
    keepalive_pc,      \* the _keep_websocket_alive task: "none", "running", "ended"
    ws_connected,      \* data_streamer._ws_connection is not None
    ohlcv_history,     \* data_streamer.ohlcv_history, oldest first
    current_price,     \* data_streamer.current_price
    arrivals,          \* every bar appended so far, in arrival order (history variable)
    connected_clients, \* the list connected_clients
    global_latest_data,\* the dict global_latest_data
    agg_pc,            \* position of data_processing_and_broadcasting_task
    agg_error,         \* the exception that ended the task, or "none"
    last_processed_bar_timestamp,
    latest_bar,        \* the task's local latest_bar during a cycle
    latest_indicators_series, \* the task's local: the row taken by iloc[-1]
    message_to_send,   \* the task's local message_to_send
    broadcast_list,    \* list(connected_clients) as taken by the for loop
    send_idx,          \* how many clients of broadcast_list the loop has taken
    cycle,             \* number of snapshots published so far (history variable)
    ws_pc,             \* per client: position of websocket_endpoint
    chan,              \* per client: "open", "stalled" (peer not reading) or "broken"
    inbox              \* per client: the messages delivered, in order

vars == <<startup_pc, success, keepalive_pc, ws_connected, ohlcv_history,
          current_price, arrivals,
          connected_clients, global_latest_data, agg_pc, agg_error,
          last_processed_bar_timestamp, latest_bar, latest_indicators_series,
          message_to_send,
          broadcast_list, send_idx, cycle, ws_pc, chan, inbox>>

lifeVars == <<success, keepalive_pc>>
bufferVars == <<ohlcv_history, arrivals>>
hubVars == <<connected_clients, ws_pc, chan, inbox>>
aggVars == <<global_latest_data, agg_pc, agg_error, last_processed_bar_timestamp,
             latest_bar, latest_indicators_series, message_to_send,
             broadcast_list, send_idx, cycle>>

\* ------------------------------------------------------------ helpers
Min(a, b) == IF a < b THEN a ELSE b
Last(s) == s[Len(s)]
\* s[-n:]
LastN(s, n) == SubSeq(s, Len(s) - Min(n, Len(s)) + 1, Len(s))
Range(s) == {s[i] : i \in 1..Len(s)}
IsSorted(s) == \A i \in 1..Len(s) - 1 : s[i].timestamp <= s[i + 1].timestamp
StrictlyIncreasing(s) == \A i \in 1..Len(s) - 1 : s[i].timestamp < s[i + 1].timestamp
SeqsUpTo(S, n) == UNION {[1..k -> S] : k \in 0..n}

\* append as it would be on a deque built without maxlen
DequeAppendNoMaxlen(q, x) == Append(q, x)
\* append as it would be if a full buffer dropped its newest bar, not its oldest
DequeAppendDropNewest(q, x) ==
    IF Len(q) < HistorySize THEN Append(q, x)
    ELSE Append(SubSeq(q, 1, Len(q) - 1), x)
\* collections.deque(maxlen=history_size).append(x)
DequeAppend(q, x) ==
    IF Len(q) < HistorySize THEN Append(q, x) ELSE Append(Tail(q), x)

RECURSIVE DequeExtend(_, _)
DequeExtend(q, xs) ==
    IF xs = <<>> THEN q ELSE DequeExtend(DequeAppend(q, Head(xs)), Tail(xs))

\* DataFrame.sort_index(): the rows ordered by timestamp; rows with equal
\* timestamps in any order (the default sort is not stable).
SortIndex(rows) ==
    {r \in {[i \in 1..Len(rows) |-> rows[p[i]]] : p \in Permutations(1..Len(rows))} :
        IsSorted(r)}

\* ------------------------------------------------------------- startup
Init ==
    /\ startup_pc = "fetch"
    /\ success = "unset"
    /\ keepalive_pc = "none"
    /\ ws_connected = FALSE
    /\ ohlcv_history = <<>>
    /\ current_price = None
    /\ arrivals = <<>>
    /\ connected_clients = <<>>
    /\ global_latest_data = Empty
    /\ agg_pc = "none"
    /\ agg_error = "none"
    /\ last_processed_bar_timestamp = None
    /\ latest_bar = NoBar
    /\ latest_indicators_series = NoRow
    /\ message_to_send = Empty
    /\ broadcast_list = <<>>
    /\ send_idx = 0
    /\ cycle = 0
    /\ ws_pc = [c \in Clients |-> "none"]
    /\ chan = [c \in Clients |-> "open"]
    /\ inbox = [c \in Clients |-> <<>>]

\* fetch_initial_historical_data with the response's rows `values`: the rows
\* are sorted by datetime and appended one by one.
FetchInitialOk(values) ==
    /\ startup_pc = "fetch"
    /\ values # <<>>
    /\ \E df \in SortIndex(values) :
          /\ ohlcv_history' = DequeExtend(ohlcv_history, df)
          /\ arrivals' = arrivals \o df
    /\ startup_pc' = "ws"
    /\ success' = "ok"
    /\ UNCHANGED <<ws_connected, current_price, keepalive_pc>>
    /\ UNCHANGED hubVars
    /\ UNCHANGED aggVars

\* The failure as it would be if it came in the middle of the append loop:
\* the rows appended before it stay in the buffer.
FetchInitialFailPartial ==
    /\ startup_pc = "fetch"
    /\ \E bar \in Bars :
          /\ ohlcv_history' = DequeAppend(ohlcv_history, bar)
          /\ arrivals' = Append(arrivals, bar)
    /\ startup_pc' = "ws"
    /\ success' = "failed"
    /\ UNCHANGED <<ws_connected, current_price, keepalive_pc>>
    /\ UNCHANGED hubVars
    /\ UNCHANGED aggVars

\* fetch_initial_historical_data when the request raises or the response has
\* no 'values': returns False, startup_event logs and goes on.
FetchInitialFail ==
    /\ startup_pc = "fetch"
    /\ startup_pc' = "ws"
    /\ success' = "failed"
    /\ UNCHANGED <<ws_connected, current_price, keepalive_pc>>
    /\ UNCHANGED bufferVars
    /\ UNCHANGED hubVars
    /\ UNCHANGED aggVars

\* start_websocket (connected, with its keep-alive task created, or not),
\* then create_task of the aggregator.
StartWebsocket(ok) ==
    /\ startup_pc = "ws"
    /\ ws_connected' = ok
    /\ keepalive_pc' = IF ok THEN "running" ELSE "none"
    /\ startup_pc' = "running"
    /\ agg_pc' = "sleep"
    /\ success' = "unset"
    /\ UNCHANGED current_price
    /\ UNCHANGED bufferVars
    /\ UNCHANGED hubVars
    /\ UNCHANGED <<global_latest_data, agg_error, last_processed_bar_timestamp,
                   latest_bar, message_to_send, broadcast_list, send_idx, cycle>>
    /\ UNCHANGED latest_indicators_series

\* shutdown_event: stop_websocket disconnects a standing connection and sets
\* _ws_connection to None.  The handler does nothing else: the aggregator
\* task (its handle was dropped at line 60) is not cancelled and no client
\* socket is closed.
ShutdownEvent ==
    /\ startup_pc = "running"
    /\ startup_pc' = "shutdown"
    /\ ws_connected' = FALSE
    /\ UNCHANGED current_price
    /\ UNCHANGED lifeVars
    /\ UNCHANGED bufferVars
    /\ UNCHANGED hubVars
    /\ UNCHANGED aggVars

\* _keep_websocket_alive wakes from its sleep with _ws_connection None: the
\* while condition raises AttributeError, the except clause logs, the task
\* ends.  (With a standing connection the pass changes nothing.)
KeepWebsocketAliveEnd ==
    /\ keepalive_pc = "running"
    /\ ~ws_connected
    /\ keepalive_pc' = "ended"
    /\ UNCHANGED <<startup_pc, ws_connected, current_price, success>>
    /\ UNCHANGED bufferVars
    /\ UNCHANGED hubVars
    /\ UNCHANGED aggVars

\* ------------------------------------------------------------- ingress
\* _on_event, event 'ohlc'
OnOhlc(bar) ==
    /\ startup_pc = "running"
    /\ ws_connected
    /\ ohlcv_history' = DequeAppend(ohlcv_history, bar)
    /\ arrivals' = Append(arrivals, bar)
    /\ UNCHANGED <<startup_pc, ws_connected, current_price>>
    /\ UNCHANGED lifeVars
    /\ UNCHANGED hubVars
    /\ UNCHANGED aggVars

\* _on_event, event 'price'
OnPrice(p) ==
    /\ startup_pc = "running"
    /\ ws_connected
    /\ current_price' = p
    /\ UNCHANGED <<startup_pc, ws_connected>>
    /\ UNCHANGED lifeVars
    /\ UNCHANGED bufferVars
    /\ UNCHANGED hubVars
    /\ UNCHANGED aggVars

\* ------------------------------------------- the buffer specification
\* Bulk load followed by live 'ohlc' events with arbitrary timestamps.
NextBuffer ==
    \/ \E values \in SeqsUpTo(Bars, MaxBatch) : FetchInitialOk(values)
    \/ FetchInitialFail
    \/ \E ok \in BOOLEAN : StartWebsocket(ok)
    \/ \E bar \in Bars : Len(arrivals) < MaxBars /\ OnOhlc(bar)

SpecBuffer == Init /\ [][NextBuffer]_vars

\* A live 'ohlc' event is handled in this step; the bar is Last(arrivals').
LiveAppend == startup_pc = "running" /\ Len(arrivals') = Len(arrivals) + 1

\* ----------------------------------------------------------- indicators
\* get_ohlcv_dataframe as it would be without sort_index: buffer order
GetOhlcvDataframeUnsorted(history) ==
    IF history = <<>> THEN {<<>>} ELSE {history}

\* get_ohlcv_dataframe: the history as rows sorted by timestamp
GetOhlcvDataframe(history) ==
    IF history = <<>> THEN {<<>>} ELSE SortIndex(history)

IsNumber(row) == row.close # NaN
RECURSIVE SumClose(_)
SumClose(rows) == IF rows = <<>> THEN 0 ELSE Head(rows).close + SumClose(Tail(rows))

\* calculate_technical_indicators: rows with a NaN OHLC field are dropped, the
\* indicators of row i are computed from the rows up to i, and the rows with an
\* undefined indicator (the first Lookback ones) are dropped.  SMA stands for
\* the indicator columns: the sum of the last Lookback + 1 closes.  A row of
\* the result carries its index (timestamp) and its columns.
CalculateTechnicalIndicators(df) ==
    LET clean == SelectSeq(df, IsNumber)
        n == Len(clean)
    IN  IF n <= Lookback THEN <<>>
        ELSE [i \in 1..(n - Lookback) |->
                 [timestamp |-> clean[i + Lookback].timestamp,
                  close |-> clean[i + Lookback].close,
                  SMA |-> SumClose(SubSeq(clean, i, i + Lookback))]]

\* json.dumps(global_latest_data, default=str): the text that carries the dict
JsonDumps(d) == [json |-> d]

\* list.remove(x): the first occurrence of x is removed
ListRemove(l, x) ==
    LET i == CHOOSE k \in 1..Len(l) : l[k] = x /\ \A j \in 1..(k - 1) : l[j] # x
    IN  SubSeq(l, 1, i - 1) \o SubSeq(l, i + 1, Len(l))

\* ----------------------------------------------------------- aggregator
\* The task is at "sleep" when it is created and when it awaits
\* asyncio.sleep(0.5); a Poll step is the pass of the while loop it runs when
\* it is resumed, up to its next await.
\* One pass of the while loop with no new last bar: straight to the sleep.
PollIdle ==
    /\ agg_pc = "sleep"
    /\ \/ /\ ohlcv_history = <<>>
          /\ UNCHANGED latest_bar
       \/ /\ ohlcv_history # <<>>
          /\ Last(ohlcv_history).timestamp = last_processed_bar_timestamp
          /\ latest_bar' = Last(ohlcv_history)
    /\ agg_pc' = "sleep"
    /\ UNCHANGED <<startup_pc, ws_connected, current_price>>
    /\ UNCHANGED lifeVars
    /\ UNCHANGED bufferVars
    /\ UNCHANGED hubVars
    /\ UNCHANGED <<global_latest_data, agg_error, last_processed_bar_timestamp,
                   message_to_send, broadcast_list, send_idx, cycle>>
    /\ UNCHANGED latest_indicators_series

\* PollEmpty as it would be if the empty result were published like any other:
\* the snapshot is replaced by an empty dict.
PollEmptyClears ==
    /\ agg_pc = "sleep"
    /\ ohlcv_history # <<>>
    /\ Last(ohlcv_history).timestamp # last_processed_bar_timestamp
    /\ \E df \in GetOhlcvDataframe(ohlcv_history) :
          CalculateTechnicalIndicators(df) = <<>>
    /\ agg_pc' = "sleep"
    /\ latest_bar' = Last(ohlcv_history)
    /\ global_latest_data' = Empty
    /\ UNCHANGED <<startup_pc, ws_connected, current_price>>
    /\ UNCHANGED lifeVars
    /\ UNCHANGED bufferVars
    /\ UNCHANGED hubVars
    /\ UNCHANGED <<agg_error, last_processed_bar_timestamp,
                   message_to_send, broadcast_list, send_idx, cycle>>
    /\ UNCHANGED latest_indicators_series

\* A new last bar, and the indicator computation returns an empty frame: the
\* else branch logs, nothing is assigned.
PollEmpty ==
    /\ agg_pc = "sleep"
    /\ ohlcv_history # <<>>
    /\ Last(ohlcv_history).timestamp # last_processed_bar_timestamp
    /\ \E df \in GetOhlcvDataframe(ohlcv_history) :
          CalculateTechnicalIndicators(df) = <<>>
    /\ agg_pc' = "sleep"
    /\ latest_bar' = Last(ohlcv_history)
    /\ UNCHANGED <<startup_pc, ws_connected, current_price>>
    /\ UNCHANGED lifeVars
    /\ UNCHANGED bufferVars
    /\ UNCHANGED hubVars
    /\ UNCHANGED <<global_latest_data, agg_error, last_processed_bar_timestamp,
                   message_to_send, broadcast_list, send_idx, cycle>>
    /\ UNCHANGED latest_indicators_series

\* A new last bar, and get_ohlcv_dataframe or calculate_technical_indicators
\* raises: the calls of lines 88-89 stand in no try block, the exception leaves
\* the while loop and the task ends.
PollRaise ==
    /\ agg_pc = "sleep"
    /\ ohlcv_history # <<>>
    /\ Last(ohlcv_history).timestamp # last_processed_bar_timestamp
    /\ agg_pc' = "dead"
    /\ agg_error' = "ComputeError"
    /\ latest_bar' = Last(ohlcv_history)
    /\ UNCHANGED <<startup_pc, ws_connected, current_price>>
    /\ UNCHANGED lifeVars
    /\ UNCHANGED bufferVars
    /\ UNCHANGED hubVars
    /\ UNCHANGED <<global_latest_data, last_processed_bar_timestamp,
                   message_to_send, broadcast_list, send_idx, cycle>>
    /\ UNCHANGED latest_indicators_series

\* The dict as it would be if its timestamp came from the bar an earlier pass
\* had read, not from the bar this pass read at line 83.
SnapshotStale(rows) ==
    [latest_price |-> current_price,
     latest_indicators |-> [close |-> Last(rows).close, SMA |-> Last(rows).SMA],
     ohlcv_data |-> LastN(ohlcv_history, RecentBars),
     timestamp |-> latest_bar.timestamp]

\* The dict built at lines 92-105 from the last indicator row: its items (the
\* columns, which the dropna left without NaN), not its index.
Snapshot(rows) ==
    [latest_price |-> current_price,
     latest_indicators |-> [close |-> Last(rows).close, SMA |-> Last(rows).SMA],
     ohlcv_data |-> LastN(ohlcv_history, RecentBars),
     timestamp |-> Last(ohlcv_history).timestamp]

\* PollPublish as it would be without the comparison of line 85: every pass
\* over a non-empty buffer recomputes and publishes.
PollPublishNoCheck ==
    /\ agg_pc = "sleep"
    /\ ohlcv_history # <<>>
    /\ \E df \in GetOhlcvDataframe(ohlcv_history) :
          LET rows == CalculateTechnicalIndicators(df) IN
          /\ rows # <<>>
          /\ latest_indicators_series' = Last(rows)
          /\ global_latest_data' = Snapshot(rows)
          /\ message_to_send' = JsonDumps(Snapshot(rows))
    /\ latest_bar' = Last(ohlcv_history)
    /\ broadcast_list' = connected_clients
    /\ cycle' = cycle + 1
    /\ IF connected_clients = <<>>
       THEN /\ last_processed_bar_timestamp' = Last(ohlcv_history).timestamp
            /\ agg_pc' = "sleep"
       ELSE /\ agg_pc' = "send"
            /\ UNCHANGED last_processed_bar_timestamp
    /\ UNCHANGED send_idx
    /\ UNCHANGED <<startup_pc, ws_connected, current_price, agg_error>>
    /\ UNCHANGED lifeVars
    /\ UNCHANGED bufferVars
    /\ UNCHANGED hubVars

\* A new last bar and a non-empty result: the snapshot is replaced, serialised,
\* and the for loop takes its copy of the client list.  With no client the
\* loop body never runs and the timestamp is recorded at once.
PollPublish ==
    /\ agg_pc = "sleep"
    /\ ohlcv_history # <<>>
    /\ Last(ohlcv_history).timestamp # last_processed_bar_timestamp
    /\ \E df \in GetOhlcvDataframe(ohlcv_history) :
          LET rows == CalculateTechnicalIndicators(df) IN
          /\ rows # <<>>
          /\ latest_indicators_series' = Last(rows)
          /\ global_latest_data' = Snapshot(rows)
          /\ message_to_send' = JsonDumps(Snapshot(rows))
    /\ latest_bar' = Last(ohlcv_history)
    /\ broadcast_list' = connected_clients
    /\ cycle' = cycle + 1
    /\ IF connected_clients = <<>>
       THEN /\ last_processed_bar_timestamp' = Last(ohlcv_history).timestamp
            /\ agg_pc' = "sleep"
       ELSE /\ agg_pc' = "send"
            /\ UNCHANGED last_processed_bar_timestamp
    /\ UNCHANGED send_idx
    /\ UNCHANGED <<startup_pc, ws_connected, current_price, agg_error>>
    /\ UNCHANGED lifeVars
    /\ UNCHANGED bufferVars
    /\ UNCHANGED hubVars

\* The client the for loop sends to next
SendTarget == broadcast_list[send_idx + 1]

\* After the body of the for loop: the next client, or past the loop, where
\* the list copy is dropped, the timestamp is recorded and the task sleeps.
LoopAdvance ==
    IF send_idx + 1 = Len(broadcast_list)
    THEN /\ last_processed_bar_timestamp' = latest_bar.timestamp
         /\ agg_pc' = "sleep"
         /\ broadcast_list' = <<>>
         /\ send_idx' = 0
    ELSE /\ send_idx' = send_idx + 1
         /\ UNCHANGED <<last_processed_bar_timestamp, agg_pc, broadcast_list>>

\* await client.send_text(message_to_send) returns
SendOk ==
    /\ agg_pc = "send"
    /\ chan[SendTarget] = "open"
    /\ inbox' = [inbox EXCEPT ![SendTarget] =
                    Append(@, [msg |-> message_to_send, cycle |-> cycle])]
    /\ LoopAdvance
    /\ UNCHANGED <<startup_pc, ws_connected, current_price>>
    /\ UNCHANGED lifeVars
    /\ UNCHANGED bufferVars
    /\ UNCHANGED <<connected_clients, ws_pc, chan>>
    /\ UNCHANGED <<global_latest_data, agg_error, latest_bar, message_to_send,
                   cycle>>
    /\ UNCHANGED latest_indicators_series

\* send_text raises, the client is in connected_clients: it is removed
SendFailRemove ==
    /\ agg_pc = "send"
    /\ chan[SendTarget] = "broken"
    /\ SendTarget \in Range(connected_clients)
    /\ connected_clients' = ListRemove(connected_clients, SendTarget)
    /\ LoopAdvance
    /\ UNCHANGED <<startup_pc, ws_connected, current_price>>
    /\ UNCHANGED lifeVars
    /\ UNCHANGED bufferVars
    /\ UNCHANGED <<ws_pc, chan, inbox>>
    /\ UNCHANGED <<global_latest_data, agg_error, latest_bar, message_to_send,
                   cycle>>
    /\ UNCHANGED latest_indicators_series

\* send_text raises, the client is no longer in connected_clients:
\* connected_clients.remove raises ValueError inside the except clause, which
\* nothing catches; the task ends.
SendFailCrash ==
    /\ agg_pc = "send"
    /\ chan[SendTarget] = "broken"
    /\ SendTarget \notin Range(connected_clients)
    /\ send_idx' = send_idx + 1
    /\ agg_pc' = "dead"
    /\ agg_error' = "ValueError"
    /\ UNCHANGED <<startup_pc, ws_connected, current_price>>
    /\ UNCHANGED lifeVars
    /\ UNCHANGED bufferVars
    /\ UNCHANGED hubVars
    /\ UNCHANGED <<global_latest_data, last_processed_bar_timestamp, latest_bar,
                   message_to_send, broadcast_list, cycle>>
    /\ UNCHANGED latest_indicators_series

\* ------------------------------------------------------ websocket endpoint
\* The message of the initial send_text: cycle 0 marks it as no broadcast's
InitialMessage(d) == [msg |-> JsonDumps(d), cycle |-> 0]

\* Connect as it would be without lines 147-151: registered, nothing sent.
ConnectNoInitial(c) ==
    /\ startup_pc = "running"
    /\ ws_pc[c] = "none"
    /\ connected_clients' = Append(connected_clients, c)
    /\ ws_pc' = [ws_pc EXCEPT ![c] = "receive"]
    /\ UNCHANGED <<chan, inbox>>
    /\ UNCHANGED <<startup_pc, ws_connected, current_price>>
    /\ UNCHANGED lifeVars
    /\ UNCHANGED bufferVars
    /\ UNCHANGED aggVars

\* websocket_endpoint up to its first await after accept: the client is
\* appended, and with a snapshot present send_text is called with it.
Connect(c) ==
    /\ startup_pc = "running"
    /\ ws_pc[c] = "none"
    /\ connected_clients' = Append(connected_clients, c)
    /\ IF global_latest_data # Empty
       THEN /\ inbox' = [inbox EXCEPT ![c] =
                    Append(@, InitialMessage(global_latest_data))]
            /\ ws_pc' = [ws_pc EXCEPT ![c] = "initsend"]
       ELSE /\ ws_pc' = [ws_pc EXCEPT ![c] = "receive"]
            /\ UNCHANGED inbox
    /\ UNCHANGED chan
    /\ UNCHANGED <<startup_pc, ws_connected, current_price>>
    /\ UNCHANGED lifeVars
    /\ UNCHANGED bufferVars
    /\ UNCHANGED aggVars

\* The initial send_text returns, or raises and is logged: on to receive_text
InitSendDone(c) ==
    /\ ws_pc[c] = "initsend"
    /\ chan[c] # "stalled"
    /\ ws_pc' = [ws_pc EXCEPT ![c] = "receive"]
    /\ UNCHANGED <<connected_clients, chan, inbox>>
    /\ UNCHANGED <<startup_pc, ws_connected, current_price>>
    /\ UNCHANGED lifeVars
    /\ UNCHANGED bufferVars
    /\ UNCHANGED aggVars

\* The peer stops reading: from here a send_text to it does not return.
\* No await of send_text carries a timeout (lines 112 and 149).
Stall(c) ==
    /\ ws_pc[c] \in {"initsend", "receive"}
    /\ chan[c] = "open"
    /\ chan' = [chan EXCEPT ![c] = "stalled"]
    /\ UNCHANGED <<connected_clients, ws_pc, inbox>>
    /\ UNCHANGED <<startup_pc, ws_connected, current_price>>
    /\ UNCHANGED lifeVars
    /\ UNCHANGED bufferVars
    /\ UNCHANGED aggVars

\* The peer closes or the connection is lost
Break(c) ==
    /\ ws_pc[c] \in {"initsend", "receive"}
    /\ chan[c] \in {"open", "stalled"}
    /\ chan' = [chan EXCEPT ![c] = "broken"]
    /\ UNCHANGED <<connected_clients, ws_pc, inbox>>
    /\ UNCHANGED <<startup_pc, ws_connected, current_price>>
    /\ UNCHANGED lifeVars
    /\ UNCHANGED bufferVars
    /\ UNCHANGED aggVars

\* receive_text raises WebSocketDisconnect and the client is in the list
DisconnectRemove(c) ==
    /\ ws_pc[c] = "receive"
    /\ chan[c] = "broken"
    /\ c \in Range(connected_clients)
    /\ connected_clients' = ListRemove(connected_clients, c)
    /\ ws_pc' = [ws_pc EXCEPT ![c] = "done"]
    /\ UNCHANGED <<chan, inbox>>
    /\ UNCHANGED <<startup_pc, ws_connected, current_price>>
    /\ UNCHANGED lifeVars
    /\ UNCHANGED bufferVars
    /\ UNCHANGED aggVars

\* receive_text raises WebSocketDisconnect and the broadcast has already
\* removed the client: connected_clients.remove raises ValueError out of the
\* handler.
DisconnectCrash(c) ==
    /\ ws_pc[c] = "receive"
    /\ chan[c] = "broken"
    /\ c \notin Range(connected_clients)
    /\ ws_pc' = [ws_pc EXCEPT ![c] = "error"]
    /\ UNCHANGED <<connected_clients, chan, inbox>>
    /\ UNCHANGED <<startup_pc, ws_connected, current_price>>
    /\ UNCHANGED lifeVars
    /\ UNCHANGED bufferVars
    /\ UNCHANGED aggVars

\* GET /latest_data
GetLatestProcessedData == global_latest_data

\* ---------------------------------------------------- specifications
\* The steps of the aggregator task
Aggregator ==
    \/ PollIdle
    \/ PollEmpty
    \/ PollPublish
    \/ SendOk
    \/ SendFailRemove
    \/ SendFailCrash

\* The steps of the websocket endpoint serving client c
Endpoint(c) ==
    \/ Connect(c)
    \/ InitSendDone(c)
    \/ Break(c)
    \/ DisconnectRemove(c)
    \/ DisconnectCrash(c)

\* The hub: every client, peers that stop reading, and a feed in order: bars
\* that all carry numbers, each newer than the bars before it.
HubBars == {b \in Bars : b.close = 1}
InOrder(bar) == arrivals # <<>> => bar.timestamp > Last(arrivals).timestamp
HubBatches == {v \in SeqsUpTo(HubBars, MaxBatch) : StrictlyIncreasing(v)}
NextHub ==
    \/ \E values \in HubBatches : FetchInitialOk(values)
    \/ FetchInitialFail
    \/ \E ok \in BOOLEAN : StartWebsocket(ok)
    \/ \E bar \in HubBars : InOrder(bar) /\ OnOhlc(bar)
    \/ Aggregator
    \/ \E c \in Clients : Endpoint(c)
    \/ \E c \in Clients : Stall(c)

SpecHub == Init /\ [][NextHub]_vars

\* The pipeline: bars with and without numbers, price ticks, an indicator
\* computation that may raise, one client.
PipelineBars == {b \in Bars : b.close \in {NaN, 1}}
Next ==
    \/ \E values \in SeqsUpTo(PipelineBars, MaxBatch) : FetchInitialOk(values)
    \/ FetchInitialFail
    \/ \E ok \in BOOLEAN : StartWebsocket(ok)
    \/ \E bar \in PipelineBars : Len(arrivals) < MaxPipelineBars /\ OnOhlc(bar)
    \/ \E p \in {1} : OnPrice(p)
    \/ Aggregator
    \/ PollRaise
    \/ Endpoint(1)

Spec == Init /\ [][Next]_vars

\* The pipeline through shutdown, with the event loop's scheduling: a task
\* that is ready to run is resumed (the aggregator after its sleep or a
\* finished send, the keep-alive task after its sleep, an endpoint handler
\* whose await ended).  Requests, events, peers and shutdown come when they
\* come.
NextShutdown ==
    \/ Next
    \/ ShutdownEvent
    \/ KeepWebsocketAliveEnd

FairSpec ==
    /\ Init
    /\ [][NextShutdown]_vars
    /\ WF_vars(Aggregator)
    /\ WF_vars(KeepWebsocketAliveEnd)
    /\ WF_vars(InitSendDone(1) \/ DisconnectRemove(1) \/ DisconnectCrash(1))

\* The live feed with every send completing: bars that all carry numbers,
\* with whatever timestamps the feed gives them, one client whose connection
\* stands, a computation that returns.  The aggregator task is resumed
\* whenever it is ready to run.
AggregatorLive ==
    \/ PollIdle
    \/ PollEmpty
    \/ PollPublish
    \/ SendOk

NextLive ==
    \/ \E values \in SeqsUpTo(HubBars, MaxBatch) : FetchInitialOk(values)
    \/ FetchInitialFail
    \/ \E ok \in BOOLEAN : StartWebsocket(ok)
    \/ \E bar \in HubBars : Len(arrivals) < MaxLiveBars /\ OnOhlc(bar)
    \/ AggregatorLive
    \/ Connect(1)
    \/ InitSendDone(1)

SpecLive == Init /\ [][NextLive]_vars /\ WF_vars(AggregatorLive)

\* ------------------------------------------------- the history buffer
\* C1: after any sequence of bulk-load appends and live 'ohlc' events the
\* history buffer never holds more bars than its capacity.
C1_LengthWithinCapacity == Len(ohlcv_history) <= HistorySize

\* More bars have arrived than the buffer holds, and the buffer is full.
C1_Witness == Len(arrivals) > HistorySize /\ Len(ohlcv_history) = HistorySize

\* C2: after any sequence of bar arrivals (bulk load, then live 'ohlc' events
\* with arbitrary timestamps) the buffer is ordered non-decreasing by timestamp.
C2_SortedByTimestamp == IsSorted(ohlcv_history)

\* C3: a live bar whose timestamp equals that of the last bar replaces the last
\* entry; the length is unchanged and no older bar is evicted.
C3_EqualTimestampReplaces ==
    [][(/\ LiveAppend
        /\ ohlcv_history # <<>>
        /\ Last(arrivals').timestamp = Last(ohlcv_history).timestamp)
       => ohlcv_history' =
              [ohlcv_history EXCEPT ![Len(ohlcv_history)] = Last(arrivals')]]_vars

\* C4: a live bar whose timestamp is strictly less than that of the last bar is
\* discarded; the buffer is the same before and after.
C4_OlderTimestampDiscarded ==
    [][(/\ LiveAppend
        /\ ohlcv_history # <<>>
        /\ Last(arrivals').timestamp < Last(ohlcv_history).timestamp)
       => ohlcv_history' = ohlcv_history]_vars

\* C5: a bar newer than the last one, appended to a full buffer, evicts exactly
\* the oldest bar and the others keep their order; after bars with strictly
\* increasing timestamps t1..tn the buffer holds the last min(n, capacity) of
\* them in arrival order.
C5_EvictsOldest ==
    /\ [](StrictlyIncreasing(arrivals)
            => ohlcv_history = LastN(arrivals, Min(Len(arrivals), HistorySize)))
    /\ [][(/\ LiveAppend
           /\ Len(ohlcv_history) = HistorySize
           /\ Last(arrivals').timestamp > Last(ohlcv_history).timestamp)
          => ohlcv_history' = Append(Tail(ohlcv_history), Last(arrivals'))]_vars

\* Strictly increasing bars, more of them than the capacity, the last one live:
\* the oldest has been evicted.
C5_Witness ==
    /\ StrictlyIncreasing(arrivals)
    /\ Len(arrivals) > HistorySize
    /\ startup_pc = "running"
    /\ ohlcv_history # <<>>
    /\ Head(ohlcv_history) # Head(arrivals)

\* ------------------------------------------------------ the broadcast
\* The aggregator finishes one send of the for loop in this step.
SendStep == agg_pc = "send" /\ (send_idx' # send_idx \/ agg_pc' # "send")

\* How many messages of broadcast n the client's inbox holds
Received(c, n) == Cardinality({i \in 1..Len(inbox[c]) : inbox[c][i].cycle = n})

\* C6: a send failure during a broadcast removes that subscriber from the
\* registry, and delivery is still attempted to every other subscriber of the
\* broadcast's copy of the list.
C6_FailureDoesNotAbortBroadcast ==
    [][(SendStep /\ chan[SendTarget] = "broken")
       => /\ SendTarget \notin Range(connected_clients')
          /\ \/ agg_pc' = "send"
             \/ send_idx + 1 = Len(broadcast_list)]_vars

\* C7: a client that connects while a snapshot exists gets that snapshot as
\* its first message, and whatever the aggregator broadcasts meanwhile comes
\* after it.
C7_InitialSnapshotFirst ==
    [][\A c \in Clients :
        /\ (ws_pc[c] = "none" /\ ws_pc'[c] # "none" /\ GetLatestProcessedData # Empty)
              => inbox'[c] = <<InitialMessage(GetLatestProcessedData)>>
        /\ inbox[c] # <<>>
              => inbox'[c] # <<>> /\ Head(inbox'[c]) = Head(inbox[c])]_vars

\* A broadcast reached the client while its initial send was still awaited,
\* and the initial snapshot is the first message.
C7_Witness ==
    \E c \in Clients :
        /\ ws_pc[c] = "initsend"
        /\ Len(inbox[c]) = 2
        /\ inbox[c][1].cycle = 0
        /\ inbox[c][2].cycle > 0

\* C8: removing a subscriber that is no longer in the registry leaves the
\* registry unchanged and raises no error, in the endpoint and in the broadcast.
C8_RemoveIsIdempotent ==
    /\ \A c \in Clients : ws_pc[c] # "error"
    /\ agg_error # "ValueError"

\* C9: a broadcast delivers its snapshot exactly once to every subscriber of
\* its copy of the list (whose connection stands), and a subscriber that
\* disconnected before a broadcast began receives nothing from it or from a
\* later one.
C9_ExactlyOncePerBroadcast ==
    /\ [](\A c \in Clients : \A n \in 1..cycle : Received(c, n) <= 1)
    /\ [][(SendStep /\ agg_pc' # "send")
            => \A c \in Range(broadcast_list) :
                  chan'[c] = "open" => Received(c, cycle)' = 1]_vars
    /\ [][\A c \in Clients :
            ws_pc[c] \in {"done", "error"} => inbox'[c] = inbox[c]]_vars

\* ------------------------------------------------------ the aggregator
\* The aggregator task runs one pass of its loop, up to the next await: a
\* step from "sleep" that is no step of the ingress, of an endpoint, of the
\* keep-alive task or of shutdown.
PollStep ==
    /\ agg_pc = "sleep"
    /\ UNCHANGED <<startup_pc, ohlcv_history, arrivals, current_price, ws_pc,
                   chan, keepalive_pc>>

\* The indicator computation on the current history returns an empty frame.
EmptyResult ==
    \A df \in GetOhlcvDataframe(ohlcv_history) :
        CalculateTechnicalIndicators(df) = <<>>

\* C10: in a cycle where the indicator computation returns an empty result
\* nothing is sent to any subscriber and /latest_data returns what it returned
\* before the cycle.
C10_EmptyResultChangesNothing ==
    [][(/\ PollStep
        /\ ohlcv_history # <<>>
        /\ Last(ohlcv_history).timestamp # last_processed_bar_timestamp
        /\ EmptyResult)
       => /\ inbox' = inbox
          /\ GetLatestProcessedData' = GetLatestProcessedData]_vars

\* An empty cycle has just run (the task sleeps with a latest_bar it has not
\* recorded as processed) with a snapshot published earlier and a client
\* registered whose connection stands.
C10_Witness ==
    /\ agg_pc = "sleep"
    /\ latest_bar # NoBar
    /\ latest_bar.timestamp # last_processed_bar_timestamp
    /\ GetLatestProcessedData # Empty
    /\ connected_clients # <<>>
    /\ \E c \in Clients : chan[c] = "open" /\ c \in Range(connected_clients)

\* C11: if the indicator computation raises during a cycle, the cycle is
\* skipped, the snapshot published before remains the one served, and the
\* loop keeps running (the task is back at its sleep, from where it polls
\* the later bars).
C11_ComputeErrorSkipsCycle ==
    [][(PollStep /\ agg_error' = "ComputeError")
       => /\ GetLatestProcessedData' = GetLatestProcessedData
          /\ agg_pc' = "sleep"]_vars

\* C12: a subscriber whose send never completes does not block the
\* pipeline: while the broadcast waits on a send to a stalled subscriber,
\* the aggregator has a step of its own by which the send ends as failed
\* (from where the subscriber is removed and the loop goes on to the
\* remaining subscribers and the later bars).
C12_StalledSendDoesNotBlock ==
    (agg_pc = "send" /\ chan[SendTarget] = "stalled")
        => ENABLED (SendOk \/ SendFailRemove \/ SendFailCrash)

\* C13: under every interleaving of connects, disconnects and failed sends
\* with the broadcast, the aggregator task never terminates, and a step
\* deregisters no subscriber other than one whose connection is gone.
C13_InterleavingsKeepLoopRunning ==
    /\ [](agg_pc # "dead")
    /\ [][\A c \in Clients :
            (c \in Range(connected_clients) /\ c \notin Range(connected_clients'))
                => chan[c] = "broken"]_vars

\* C14: after shutdown is requested the system eventually reaches a state
\* where the aggregator loop has stopped, the ingress connection is closed,
\* every subscriber channel is closed and no background task (aggregator,
\* keep-alive) is still running.
C14_ShutdownReachesQuiescence ==
    (startup_pc = "shutdown")
        ~> /\ agg_pc \notin {"sleep", "send"}
           /\ ~ws_connected
           /\ keepalive_pc # "running"
           /\ \A c \in Clients : ws_pc[c] \in {"none", "done", "error"}

\* C15: if the initial bulk load fails the buffer is left empty (no partial
\* batch); startup still completes: the handler is not stopped, and its
\* next step starts live streaming and creates the aggregator task; and the
\* query interface returns the empty snapshot until a cycle has published.
C15_FailedBulkLoadStartsEmpty ==
    /\ [](success = "failed"
            => /\ ohlcv_history = <<>>
               /\ ENABLED (\E ok \in BOOLEAN : StartWebsocket(ok)))
    /\ [][success = "failed" => startup_pc' = "running" /\ agg_pc' = "sleep"]_vars
    /\ [](cycle = 0 => GetLatestProcessedData = Empty)

\* The bulk load failed (no bar was ever appended), startup has completed,
\* the aggregator task runs and the query interface serves the empty
\* snapshot.
C15_Witness ==
    /\ startup_pc = "running"
    /\ arrivals = <<>>
    /\ agg_pc = "sleep"
    /\ GetLatestProcessedData = Empty

\* The last bar of the buffer is one the aggregator has not recorded.
NewLastBar ==
    /\ ohlcv_history # <<>>
    /\ Last(ohlcv_history).timestamp # last_processed_bar_timestamp

\* C16: a polling pass recomputes exactly when the buffer is non-empty and
\* its last bar's timestamp differs from the last processed one: without
\* that the pass publishes nothing and ends no task, with it and a non-empty
\* result the pass publishes a snapshot carrying the last bar's timestamp.
\* After a snapshot with timestamp T no snapshot is published while the last
\* bar's timestamp is T, so two snapshots published one after the other
\* never carry the same timestamp.
C16_RecomputesOnNewTimestampOnly ==
    /\ [][(PollStep /\ ~NewLastBar)
           => UNCHANGED <<global_latest_data, message_to_send, cycle, agg_pc,
                          agg_error, last_processed_bar_timestamp, inbox>>]_vars
    /\ [][(PollStep /\ NewLastBar /\ ~EmptyResult /\ agg_error' = "none")
           => /\ cycle' = cycle + 1
              /\ global_latest_data'.timestamp = Last(ohlcv_history).timestamp]_vars
    /\ [][(cycle' # cycle /\ global_latest_data # Empty)
           => /\ Last(ohlcv_history).timestamp # global_latest_data.timestamp
              /\ global_latest_data'.timestamp # global_latest_data.timestamp]_vars

\* Two snapshots have been published one after the other, and the task is
\* back at its sleep with the buffer's last bar recorded as processed.
C16_Witness ==
    /\ cycle >= 2
    /\ agg_pc = "sleep"
    /\ ~NewLastBar

\* C17: when the computation returns an empty result for a last bar with
\* timestamp T the aggregator records T as processed, so that no further
\* recomputation is started while the last bar's timestamp remains T.
C17_EmptyResultRecordsTimestamp ==
    [][(PollStep /\ NewLastBar /\ EmptyResult /\ agg_error' = "none")
       => /\ last_processed_bar_timestamp' = Last(ohlcv_history).timestamp
          /\ ~NewLastBar']_vars

\* C18: every published snapshot is consistent with one state of the
\* buffer, the one the publishing pass runs in: its bar array is the last
\* min(K, n) bars of the buffer in buffer order, and its timestamp is the
\* timestamp of the last bar of that array, whatever the ingress appends
\* before and after the pass.
C18_SnapshotFromOneBufferState ==
    /\ [][cycle' # cycle
           => LET d == global_latest_data'
                  n == Len(ohlcv_history)
                  k == Len(d.ohlcv_data)
              IN  /\ ohlcv_history' = ohlcv_history
                  /\ k = Min(RecentBars, n)
                  /\ \A i \in 1..k : d.ohlcv_data[i] = ohlcv_history[n - k + i]
                  /\ d.timestamp = ohlcv_history[n].timestamp]_vars
    /\ [](global_latest_data # Empty
            => /\ global_latest_data.ohlcv_data # <<>>
               /\ global_latest_data.timestamp =
                      Last(global_latest_data.ohlcv_data).timestamp)

\* A snapshot is being broadcast and the ingress has appended a bar with
\* another timestamp since it was built; the buffer had been full.
C18_Witness ==
    /\ agg_pc = "send"
    /\ Len(arrivals) > HistorySize
    /\ Last(ohlcv_history).timestamp # global_latest_data.timestamp

\* C19: with the aggregator task resumed whenever it can run and every send
\* completing, whenever a bar with a new timestamp is the last bar and the
\* computation yields a non-empty result, a snapshot published from then on
\* (that bar's, or a later bar's) is eventually delivered to every
\* registered subscriber.
C19_NewBarEventuallyDelivered ==
    \A n \in 0..MaxLiveBars :
        (agg_pc = "sleep" /\ cycle = n /\ NewLastBar /\ ~EmptyResult)
            ~> /\ cycle > n
               /\ agg_pc = "sleep"
               /\ \A c \in Range(connected_clients) :
                      \E i \in 1..Len(inbox[c]) : inbox[c][i].msg = message_to_send

=============================================================================
